---- MODULE Spec2Model ----
(***************************************************************************)
(* Model of drivers/net/phy/rockchip-fephy.c: the register sequences of    *)
(* the Rockchip integrated FEPHY (test-mode bank access, init, Wake-on-LAN *)
(* arming) and the probe / suspend / resume life cycle with its wake       *)
(* interrupt line.                                                         *)
(*                                                                         *)
(* One framework thread ("main") calls probe, config_init, suspend, resume *)
(* and remove one at a time; the threaded wake handler ("irq") runs        *)
(* concurrently.  Every phy_write / phy_read is one step, so the handler   *)
(* can interleave between two writes of a sequence.                        *)
(***************************************************************************)
EXTENDS Integers, Sequences, FiniteSets, TLC

(* ---------------- bounds of the model ---------------- *)

\* largest disable depth of the wake line the model follows
MaxDepth == 3
\* most runs of the wake handler recorded in the log of one operation
MaxIrqRuns == 1
\* most failures of phy_write in one run of the model
MaxFaults == 1

(* ---------------- register addresses and bit fields ---------------- *)

SMI_ADDR_TSTCNTL == 20
SMI_ADDR_TSTWRITE == 23
MII_LED_CTRL == 25
MII_INT_STATUS == 29
MII_INT_MASK == 30

TSTCNTL_WRITE_ADDR == 0
TSTCNTL_BANK_SEL == 11

\* 0x400
TSTMODE_ENABLE == 1024
\* 0x0
TSTMODE_DISABLE == 0

\* 0x18
WR_ADDR_A7CFG == 24

BANK_DSP0 == 0
BANK_WOL == 1
BANK_BIST == 3
BANK_AFE == 4
BANK_DSP1 == 5

(* ---------------- error numbers ---------------- *)

ENOMEM == 12
EPROBE_DEFER == 517
EINVAL == 22
EIO == 5
ETIMEDOUT == 110

\* the errors a bus transaction can report
BusErrors == {-EIO, -ETIMEDOUT}

(* ---------------- integer arithmetic of the C code ---------------- *)

RECURSIVE Pow2(_)
Pow2(n) == IF n = 0 THEN 1 ELSE 2 * Pow2(n - 1)

BIT(n) == Pow2(n)

\* x << n
Shl(x, n) == x * Pow2(n)

\* bitwise x | y of two naturals
RECURSIVE BitOr(_, _)
BitOr(x, y) ==
    IF x = 0 THEN y
    ELSE IF y = 0 THEN x
    ELSE (IF (x % 2 = 1) \/ (y % 2 = 1) THEN 1 ELSE 0)
         + 2 * BitOr(x \div 2, y \div 2)

\* conversion to u16 (the val parameter of phy_write and of bank_write)
U16(x) == x % 65536

TSTCNTL_WR == BitOr(BIT(14), BIT(10))

\* variant of TSTCNTL_WRITE: the register offset is shifted as in
\* TSTCNTL_READ (TSTCNTL_READ_ADDR = 5)
TSTCNTL_WRITE_read_shift(bank, reg) ==
    BitOr(TSTCNTL_WR, BitOr(Shl(bank, TSTCNTL_BANK_SEL), Shl(reg, 5)))

TSTCNTL_WRITE(bank, reg) ==
    BitOr(TSTCNTL_WR,
          BitOr(Shl(bank, TSTCNTL_BANK_SEL), Shl(reg, TSTCNTL_WRITE_ADDR)))

(* ---------------- register sequences ---------------- *)

\* One phy_write of a sequence: the function that issues it (fn), the
\* arguments <<bank, reg, val>> of that call when fn is bank_write, else <<>>,
\* the function the call is made from (site), and the register and value.
W(fn, args, site, addr, val) ==
    [fn |-> fn, args |-> args, site |-> site, addr |-> addr, val |-> U16(val)]

\* variant of rockchip_fephy_init_tstmode: a single enable pulse
init_tstmode_single_pulse(site) ==
    << W("init_tstmode", <<>>, site, SMI_ADDR_TSTCNTL, TSTMODE_DISABLE),
       W("init_tstmode", <<>>, site, SMI_ADDR_TSTCNTL, TSTMODE_ENABLE) >>

rockchip_fephy_init_tstmode(site) ==
    << W("init_tstmode", <<>>, site, SMI_ADDR_TSTCNTL, TSTMODE_DISABLE),
       W("init_tstmode", <<>>, site, SMI_ADDR_TSTCNTL, TSTMODE_ENABLE),
       W("init_tstmode", <<>>, site, SMI_ADDR_TSTCNTL, TSTMODE_DISABLE),
       W("init_tstmode", <<>>, site, SMI_ADDR_TSTCNTL, TSTMODE_ENABLE) >>

rockchip_fephy_close_tstmode(site) ==
    << W("close_tstmode", <<>>, site, SMI_ADDR_TSTCNTL, TSTMODE_DISABLE) >>

\* variant of rockchip_fephy_bank_write: the command is written before the
\* data
bank_write_command_first(site, bank, reg, val) ==
    << W("bank_write", <<bank, reg, U16(val)>>, site, SMI_ADDR_TSTCNTL,
         TSTCNTL_WRITE(bank, reg)),
       W("bank_write", <<bank, reg, U16(val)>>, site, SMI_ADDR_TSTWRITE, val) >>

rockchip_fephy_bank_write(site, bank, reg, val) ==
    << W("bank_write", <<bank, reg, U16(val)>>, site, SMI_ADDR_TSTWRITE, val),
       W("bank_write", <<bank, reg, U16(val)>>, site, SMI_ADDR_TSTCNTL,
         TSTCNTL_WRITE(bank, reg)) >>

\* variant of rockchip_fephy_config_init: test mode is not left at the end
config_init_without_close ==
    << W("config_init", <<>>, "config_init", MII_LED_CTRL, 1962) >>
    \o rockchip_fephy_init_tstmode("config_init")
    \o rockchip_fephy_bank_write("config_init", BANK_DSP0, WR_ADDR_A7CFG, 12)

\* 0x7aa = 1962, 0xc = 12
rockchip_fephy_config_init ==
    << W("config_init", <<>>, "config_init", MII_LED_CTRL, 1962) >>
    \o rockchip_fephy_init_tstmode("config_init")
    \o rockchip_fephy_bank_write("config_init", BANK_DSP0, WR_ADDR_A7CFG, 12)
    \o rockchip_fephy_close_tstmode("config_init")

\* ((u16)hi << 8) + lo, the match word packed from two bytes of dev_addr
MatchWord(hi, lo) == Shl(U16(hi), 8) + lo

\* variant of rockchip_fephy_wol_enable: the two bytes of each match word
\* are packed the other way round
wol_enable_bytes_swapped(dev_addr) ==
    rockchip_fephy_bank_write("wol_enable", BANK_WOL, 0,
                              MatchWord(dev_addr[6], dev_addr[5]))
    \o rockchip_fephy_bank_write("wol_enable", BANK_WOL, 1,
                                 MatchWord(dev_addr[4], dev_addr[3]))
    \o rockchip_fephy_bank_write("wol_enable", BANK_WOL, 2,
                                 MatchWord(dev_addr[2], dev_addr[1]))
    \o rockchip_fephy_bank_write("wol_enable", BANK_WOL, 3, 15)
    \o << W("wol_enable", <<>>, "wol_enable", MII_INT_MASK, 3584) >>

\* 0xf = 15, 0xe00 = 3584; dev_addr is ndev->dev_addr, indexed from 0 in C
rockchip_fephy_wol_enable(dev_addr) ==
    rockchip_fephy_bank_write("wol_enable", BANK_WOL, 0,
                              MatchWord(dev_addr[5], dev_addr[6]))
    \o rockchip_fephy_bank_write("wol_enable", BANK_WOL, 1,
                                 MatchWord(dev_addr[3], dev_addr[4]))
    \o rockchip_fephy_bank_write("wol_enable", BANK_WOL, 2,
                                 MatchWord(dev_addr[1], dev_addr[2]))
    \o rockchip_fephy_bank_write("wol_enable", BANK_WOL, 3, 15)
    \o << W("wol_enable", <<>>, "wol_enable", MII_INT_MASK, 3584) >>

\* variant of rockchip_fephy_wol_disable: the interrupt mask is cleared
\* before the match-enable mask
wol_disable_mask_first ==
    << W("wol_disable", <<>>, "wol_disable", MII_INT_MASK, 0) >>
    \o rockchip_fephy_bank_write("wol_disable", BANK_WOL, 3, 0)

rockchip_fephy_wol_disable ==
    rockchip_fephy_bank_write("wol_disable", BANK_WOL, 3, 0)
    \o << W("wol_disable", <<>>, "wol_disable", MII_INT_MASK, 0) >>

(* ---------------- inputs ---------------- *)

\* hardware addresses of the attached interface the model runs with;
\* the first is 00:11:22:33:44:55
Identities ==
    { <<0, 17, 34, 51, 68, 85>>,
      <<255, 255, 255, 255, 255, 255>>,
      <<0, 0, 0, 0, 0, 0>>,
      <<128, 1, 254, 127, 15, 240>>,
      <<1, 0, 0, 255, 255, 0>> }

\* the interrupt number of_irq_get_byname returns when "wol_irq" exists
WolIrqNum == 7

\* results of of_irq_get_byname: an interrupt number, zero, or an error
IrqLookup == {WolIrqNum, 0, -EINVAL, -EPROBE_DEFER}

(* ---------------- state ---------------- *)

VARIABLES
    pc,             \* position of the framework thread
    op,             \* the operation running or last run
    todo,           \* phy_writes left in the register sequence being run
    ret,            \* result of the register sequence being run
    opret,          \* value returned by the last finished operation
    log,            \* accesses and calls of the operation, in order
    regs,           \* last value written to each flat register
    tstmode,        \* "normal" or "test": addressing mode of the PHY
    probed,         \* probe has returned 0 and remove has not run
    removed,        \* remove has run: the instance is gone
    faults,         \* number of phy_writes that have failed so far
    suspended,      \* phydev->suspended: the device is in Suspended state
    priv_wol_irq,   \* priv->wol_irq
    priv_phydev,    \* priv->phydev is set (TRUE) or still NULL (FALSE)
    irq_registered, \* the handler is registered on the wake line
    irq_depth,      \* disable depth of the wake line; 0 means enabled
    irq_wake,       \* the wake line is marked wake-capable
    irq_pending,    \* the handler thread has been woken and not yet run
    unacked,        \* an edge was delivered and the status not read since
    dev_addr,       \* ndev->dev_addr of the attached interface
    wol,            \* what the WOL sequences have done so far
    wol_prior       \* wol when the operation was called

vars == << pc, op, todo, ret, opret, log, regs, tstmode, probed, removed,
           faults, suspended,
           priv_wol_irq, priv_phydev, irq_registered, irq_depth, irq_wake,
           irq_pending, unacked, dev_addr, wol, wol_prior >>

FlatRegs == {SMI_ADDR_TSTCNTL, SMI_ADDR_TSTWRITE, MII_LED_CTRL, MII_INT_MASK}

\* a log record: what happened (ev), on which thread (by), in which function
\* (fn, args, site as in W), the register and value of an access, the value
\* the call returned (r), and the addressing mode at that moment (tm)
Ev(ev, by, fn, args, site, addr, val, r) ==
    [ev |-> ev, by |-> by, fn |-> fn, args |-> args, site |-> site,
     addr |-> addr, val |-> val, r |-> r, tm |-> tstmode]

\* a call that is not a register access; val is the disable depth of the
\* wake line before the call
CallEv(ev, fn, val, r) == Ev(ev, "main", fn, <<>>, fn, -1, val, r)

\* 0x7f = 127, the reset value of the LED control register
Init ==
    /\ pc = "idle"
    /\ op = "none"
    /\ todo = <<>>
    /\ ret = 0
    /\ opret = 0
    /\ log = <<>>
    /\ regs = [a \in FlatRegs |-> IF a = MII_LED_CTRL THEN 127 ELSE 0]
    /\ tstmode = "normal"
    /\ probed = FALSE
    /\ removed = FALSE
    /\ faults = 0
    /\ suspended = FALSE
    /\ priv_wol_irq = 0
    /\ priv_phydev = FALSE
    /\ irq_registered = FALSE
    /\ irq_depth = 0
    /\ irq_wake = FALSE
    /\ irq_pending = FALSE
    /\ unacked = FALSE
    /\ dev_addr \in Identities
    /\ wol = "never"
    /\ wol_prior = "never"

(* ---------------- register access primitive ---------------- *)

\* the addressing mode after a write of val to register addr has succeeded
ModeAfter(addr, val) ==
    IF addr /= SMI_ADDR_TSTCNTL THEN tstmode
    ELSE IF val = TSTMODE_ENABLE THEN "test"
    ELSE IF val = TSTMODE_DISABLE THEN "normal"
    ELSE tstmode

\* what the WOL sequences have done once the sequence of pc has ended
WolAfter(failed) ==
    IF pc = "suspend_wol_enable" THEN (IF failed THEN "partial" ELSE "enabled")
    ELSE IF pc = "resume_wol_disable" THEN (IF failed THEN "partial" ELSE "disabled")
    ELSE wol

\* the phy_writes still to be issued after one of a sequence has failed:
\* every phy_write of these functions is followed by "if (ret) return ret"
\* or is itself the return value, and so is every call of one of them from
\* another, so none is left
\* variant of AfterFailure: the error is not looked at and the sequence
\* goes on
AfterFailure_continue(rest) == rest

AfterFailure(rest) == <<>>

WritingPcs == {"config_init", "suspend_wol_enable", "resume_wol_disable"}

\* phy_write returns 0: the register takes the value
phy_write_ok ==
    /\ pc \in WritingPcs
    /\ todo /= <<>>
    /\ LET w == Head(todo) IN
        /\ regs' = [regs EXCEPT ![w.addr] = w.val]
        /\ tstmode' = ModeAfter(w.addr, w.val)
        /\ log' = Append(log, Ev("write", "main", w.fn, w.args, w.site,
                                 w.addr, w.val, 0))
    /\ todo' = Tail(todo)
    /\ ret' = 0
    /\ wol' = IF Len(todo) = 1 THEN WolAfter(FALSE) ELSE wol
    /\ UNCHANGED << pc, op, opret, probed, removed, faults, suspended, priv_wol_irq,
                    priv_phydev, irq_registered, irq_depth, irq_wake,
                    irq_pending, unacked, dev_addr, wol_prior >>

\* phy_write returns an error: the register keeps its value and the
\* sequence is abandoned
phy_write_fail ==
    /\ pc \in WritingPcs
    /\ todo /= <<>>
    /\ faults < MaxFaults
    /\ faults' = faults + 1
    /\ \E e \in BusErrors :
        /\ LET w == Head(todo) IN
            log' = Append(log, Ev("write", "main", w.fn, w.args, w.site,
                                  w.addr, w.val, e))
        /\ ret' = e
    /\ todo' = AfterFailure(Tail(todo))
    /\ wol' = WolAfter(TRUE)
    /\ UNCHANGED << pc, op, opret, regs, tstmode, probed, removed, suspended,
                    priv_wol_irq, priv_phydev, irq_registered, irq_depth,
                    irq_wake, irq_pending, unacked, dev_addr, wol_prior >>

(* ---------------- interrupt controller ---------------- *)

\* disable depth after disable_irq: calls nest
disable_irq(depth) == depth + 1

\* disable depth after enable_irq: an enable at depth 0 is unbalanced and
\* leaves the line as it is
enable_irq(depth) == IF depth = 0 THEN 0 ELSE depth - 1

IrqRuns == Len(SelectSeq(log, LAMBDA e : e.by = "irq"))

\* a rising edge on the wake line while it is enabled wakes the handler thread
irq_edge ==
    /\ irq_registered
    /\ irq_depth = 0
    /\ ~irq_pending
    /\ IrqRuns < MaxIrqRuns
    /\ irq_pending' = TRUE
    /\ unacked' = TRUE
    /\ UNCHANGED << pc, op, todo, ret, opret, log, regs, tstmode, probed, removed, faults,
                    suspended, priv_wol_irq, priv_phydev, irq_registered,
                    irq_depth, irq_wake, dev_addr, wol, wol_prior >>

\* the handler: one phy_read of the status register through priv->phydev,
\* its result discarded, and IRQ_HANDLED.  With priv->phydev still NULL the
\* read dereferences a null pointer: no status register is read, and what
\* the faulting call yields (r) is not determined.
rockchip_fephy_wol_irq_thread ==
    /\ irq_pending
    /\ irq_pending' = FALSE
    /\ unacked' = IF priv_phydev THEN FALSE ELSE unacked
    /\ \E r \in {0, -EIO} :
        log' = Append(log,
                      IF priv_phydev
                      THEN Ev("read", "irq", "wol_irq_thread", <<>>,
                              "wol_irq_thread", MII_INT_STATUS, 0, r)
                      ELSE Ev("null_deref", "irq", "wol_irq_thread", <<>>,
                              "wol_irq_thread", -1, 0, r))
    /\ UNCHANGED << pc, op, todo, ret, opret, regs, tstmode, probed, removed, faults,
                    suspended, priv_wol_irq, priv_phydev, irq_registered,
                    irq_depth, irq_wake, dev_addr, wol, wol_prior >>

(* ---------------- probe and remove ---------------- *)

\* variant of rockchip_fephy_probe: a deferred lookup is treated like any
\* other negative result
probe_ignoring_defer ==
    /\ pc = "idle"
    /\ ~probed
    /\ ~removed
    /\ op' = "probe"
    /\ log' = <<>>
    /\ wol_prior' = wol
    /\ priv_phydev' = FALSE
    /\ ret' = 0
    /\ \E alloc \in BOOLEAN, r \in IrqLookup :
        IF ~alloc
        THEN /\ priv_wol_irq' = 0
             /\ opret' = -ENOMEM
             /\ pc' = "idle"
        ELSE /\ priv_wol_irq' = r
             /\ opret' = 0
             /\ pc' = IF r > 0 THEN "probe_request_irq"
                      ELSE "probe_set_phydev"
    /\ UNCHANGED << todo, regs, tstmode, probed, removed, faults, suspended,
                    irq_registered, irq_depth, irq_wake, irq_pending, unacked,
                    dev_addr, wol >>

\* devm_kzalloc, phydev->priv = priv, of_irq_get_byname
rockchip_fephy_probe ==
    /\ pc = "idle"
    /\ ~probed
    /\ ~removed
    /\ op' = "probe"
    /\ log' = <<>>
    /\ wol_prior' = wol
    /\ priv_phydev' = FALSE
    /\ ret' = 0
    /\ \E alloc \in BOOLEAN, r \in IrqLookup :
        IF ~alloc
        THEN /\ priv_wol_irq' = 0
             /\ opret' = -ENOMEM
             /\ pc' = "idle"
        ELSE /\ priv_wol_irq' = r
             /\ opret' = IF r = -EPROBE_DEFER THEN r ELSE 0
             /\ pc' = IF r = -EPROBE_DEFER THEN "idle"
                      ELSE IF r > 0 THEN "probe_request_irq"
                      ELSE "probe_set_phydev"
    /\ UNCHANGED << todo, regs, tstmode, probed, removed, faults, suspended,
                    irq_registered, irq_depth, irq_wake, irq_pending, unacked,
                    dev_addr, wol >>

\* devm_request_threaded_irq: on success the handler is registered and the
\* line starts enabled; on failure probe returns the error
probe_request_irq ==
    /\ pc = "probe_request_irq"
    /\ \E r \in {0, -EINVAL, -ENOMEM} :
        /\ ret' = r
        /\ IF r /= 0
           THEN /\ opret' = r
                /\ pc' = "idle"
                /\ UNCHANGED << irq_registered, irq_depth, log >>
           ELSE /\ irq_registered' = TRUE
                /\ irq_depth' = 0
                /\ log' = Append(log, CallEv("request_irq", "probe", 0, 0))
                /\ pc' = "probe_disable_irq"
                /\ UNCHANGED opret
    /\ UNCHANGED << op, todo, regs, tstmode, probed, removed, faults, suspended, priv_wol_irq,
                    priv_phydev, irq_wake, irq_pending, unacked, dev_addr, wol, wol_prior >>

\* disable_irq(priv->wol_irq): mask the line ...
probe_disable_irq ==
    /\ pc = "probe_disable_irq"
    /\ irq_depth' = disable_irq(irq_depth)
    /\ log' = Append(log, CallEv("disable_irq", "probe", irq_depth, 0))
    /\ pc' = "probe_synchronize_irq"
    /\ UNCHANGED << op, todo, ret, opret, regs, tstmode, probed, removed, faults, suspended,
                    priv_wol_irq, priv_phydev, irq_registered, irq_wake,
                    irq_pending, unacked, dev_addr, wol, wol_prior >>

\* ... and wait for a handler that is running
probe_synchronize_irq ==
    /\ pc = "probe_synchronize_irq"
    /\ ~irq_pending
    /\ pc' = "probe_enable_irq_wake"
    /\ UNCHANGED << op, todo, ret, opret, log, regs, tstmode, probed, removed, faults,
                    suspended, priv_wol_irq, priv_phydev, irq_registered,
                    irq_depth, irq_wake, irq_pending, unacked, dev_addr, wol, wol_prior >>

probe_enable_irq_wake ==
    /\ pc = "probe_enable_irq_wake"
    /\ irq_wake' = TRUE
    /\ log' = Append(log, CallEv("enable_irq_wake", "probe", irq_depth, 0))
    /\ pc' = "probe_set_phydev"
    /\ UNCHANGED << op, todo, ret, opret, regs, tstmode, probed, removed, faults, suspended,
                    priv_wol_irq, priv_phydev, irq_registered, irq_depth,
                    irq_pending, unacked, dev_addr, wol, wol_prior >>

\* priv->phydev = phydev; return 0
probe_set_phydev ==
    /\ pc = "probe_set_phydev"
    /\ priv_phydev' = TRUE
    /\ probed' = TRUE
    /\ opret' = 0
    /\ pc' = "idle"
    /\ UNCHANGED << op, todo, ret, log, regs, tstmode, removed, faults, suspended,
                    priv_wol_irq, irq_registered, irq_depth, irq_wake,
                    irq_pending, unacked, dev_addr, wol, wol_prior >>

\* remove does nothing itself; the device-managed interrupt and priv are
\* released when the driver is detached
rockchip_fephy_remove ==
    /\ pc = "idle"
    /\ probed
    /\ ~suspended
    /\ ~irq_pending
    /\ op' = "remove"
    /\ log' = <<>>
    /\ wol_prior' = wol
    /\ opret' = 0
    /\ probed' = FALSE
    /\ removed' = TRUE
    /\ UNCHANGED faults
    /\ irq_registered' = FALSE
    /\ priv_phydev' = FALSE
    /\ priv_wol_irq' = 0
    /\ ret' = 0
    /\ UNCHANGED << pc, todo, regs, tstmode, suspended, irq_depth,
                    irq_wake, irq_pending, unacked, dev_addr, wol >>

(* ---------------- config_init ---------------- *)

\* the framework calls .config_init
config_init_call ==
    /\ pc = "idle"
    /\ probed
    /\ op' = "config_init"
    /\ log' = <<>>
    /\ wol_prior' = wol
    /\ todo' = rockchip_fephy_config_init
    /\ ret' = 0
    /\ opret' = 0
    /\ pc' = "config_init"
    /\ UNCHANGED << regs, tstmode, probed, removed, faults, suspended, priv_wol_irq,
                    priv_phydev, irq_registered, irq_depth, irq_wake,
                    irq_pending, unacked, dev_addr, wol >>

\* config_init returns the result of its sequence
config_init_return ==
    /\ pc = "config_init"
    /\ todo = <<>>
    /\ opret' = ret
    /\ pc' = "idle"
    /\ UNCHANGED << op, todo, ret, log, regs, tstmode, probed, removed, faults, suspended,
                    priv_wol_irq, priv_phydev, irq_registered, irq_depth,
                    irq_wake, irq_pending, unacked, dev_addr, wol, wol_prior >>

(* ---------------- suspend ---------------- *)

\* results of genphy_suspend and genphy_resume
GenphyResults == {0} \cup BusErrors

\* variant of rockchip_fephy_suspend: every nonzero priv->wol_irq, also a
\* negative one, is taken for a wake line
suspend_any_nonzero_irq ==
    /\ pc = "idle"
    /\ probed
    /\ ~suspended
    /\ op' = "suspend"
    /\ log' = <<>>
    /\ wol_prior' = wol
    /\ ret' = 0
    /\ IF priv_wol_irq /= 0
       THEN /\ todo' = rockchip_fephy_wol_enable(dev_addr)
            /\ pc' = "suspend_wol_enable"
       ELSE /\ todo' = <<>>
            /\ pc' = "suspend_genphy_suspend"
    /\ opret' = 0
    /\ UNCHANGED << regs, tstmode, probed, removed, faults, suspended,
                    priv_wol_irq, priv_phydev, irq_registered, irq_depth,
                    irq_wake, irq_pending, unacked, dev_addr, wol >>

\* variant of rockchip_fephy_suspend: the wake line is enabled without
\* WOL having been programmed
suspend_without_wol_enable ==
    /\ pc = "idle"
    /\ probed
    /\ ~suspended
    /\ op' = "suspend"
    /\ log' = <<>>
    /\ wol_prior' = wol
    /\ ret' = 0
    /\ todo' = <<>>
    /\ pc' = IF priv_wol_irq > 0 THEN "suspend_wol_enable"
             ELSE "suspend_genphy_suspend"
    /\ opret' = 0
    /\ UNCHANGED << regs, tstmode, probed, removed, faults, suspended,
                    priv_wol_irq, priv_phydev, irq_registered, irq_depth,
                    irq_wake, irq_pending, unacked, dev_addr, wol >>

\* if (priv->wol_irq > 0) rockchip_fephy_wol_enable(phydev) ...
rockchip_fephy_suspend ==
    /\ pc = "idle"
    /\ probed
    /\ ~suspended
    /\ op' = "suspend"
    /\ log' = <<>>
    /\ wol_prior' = wol
    /\ ret' = 0
    /\ IF priv_wol_irq > 0
       THEN /\ todo' = rockchip_fephy_wol_enable(dev_addr)
            /\ pc' = "suspend_wol_enable"
       ELSE /\ todo' = <<>>
            /\ pc' = "suspend_genphy_suspend"
    /\ opret' = 0
    /\ UNCHANGED << regs, tstmode, probed, removed, faults, suspended, priv_wol_irq,
                    priv_phydev, irq_registered, irq_depth, irq_wake,
                    irq_pending, unacked, dev_addr, wol >>

\* ... enable_irq(priv->wol_irq), whatever wol_enable returned
suspend_enable_irq ==
    /\ pc = "suspend_wol_enable"
    /\ todo = <<>>
    /\ irq_depth' = enable_irq(irq_depth)
    /\ log' = Append(log, CallEv("enable_irq", "suspend", irq_depth, 0))
    /\ pc' = "suspend_genphy_suspend"
    /\ UNCHANGED << op, todo, ret, opret, regs, tstmode, probed, removed, faults, suspended,
                    priv_wol_irq, priv_phydev, irq_registered, irq_wake,
                    irq_pending, unacked, dev_addr, wol, wol_prior >>

\* return genphy_suspend(phydev); the framework marks the device suspended
\* when suspend returns 0
suspend_genphy_suspend ==
    /\ pc = "suspend_genphy_suspend"
    /\ \E r \in GenphyResults :
        /\ log' = Append(log, CallEv("genphy_suspend", "suspend", irq_depth, r))
        /\ opret' = r
        /\ suspended' = (r = 0)
    /\ pc' = "idle"
    /\ UNCHANGED << op, todo, ret, regs, tstmode, probed, removed, faults, priv_wol_irq,
                    priv_phydev, irq_registered, irq_depth, irq_wake,
                    irq_pending, unacked, dev_addr, wol, wol_prior >>

(* ---------------- resume ---------------- *)

\* if (priv->wol_irq > 0) rockchip_fephy_wol_disable(phydev) ...
rockchip_fephy_resume ==
    /\ pc = "idle"
    /\ probed
    /\ (priv_wol_irq > 0) => (irq_depth < MaxDepth)
    /\ op' = "resume"
    /\ log' = <<>>
    /\ wol_prior' = wol
    /\ ret' = 0
    /\ IF priv_wol_irq > 0
       THEN /\ todo' = rockchip_fephy_wol_disable
            /\ pc' = "resume_wol_disable"
       ELSE /\ todo' = <<>>
            /\ pc' = "resume_genphy_resume"
    /\ opret' = 0
    /\ UNCHANGED << regs, tstmode, probed, removed, faults, suspended, priv_wol_irq,
                    priv_phydev, irq_registered, irq_depth, irq_wake,
                    irq_pending, unacked, dev_addr, wol >>

\* variant of resume_disable_irq: generic resume is reached without the
\* wake line having been disabled
resume_without_disable_irq ==
    /\ pc = "resume_wol_disable"
    /\ todo = <<>>
    /\ pc' = "resume_genphy_resume"
    /\ UNCHANGED << op, todo, ret, opret, log, regs, tstmode, probed,
                    removed, faults, suspended, priv_wol_irq, priv_phydev,
                    irq_registered, irq_depth, irq_wake, irq_pending, unacked,
                    dev_addr, wol, wol_prior >>

\* ... disable_irq(priv->wol_irq), whatever wol_disable returned: mask ...
resume_disable_irq ==
    /\ pc = "resume_wol_disable"
    /\ todo = <<>>
    /\ irq_depth' = disable_irq(irq_depth)
    /\ log' = Append(log, CallEv("disable_irq", "resume", irq_depth, 0))
    /\ pc' = "resume_synchronize_irq"
    /\ UNCHANGED << op, todo, ret, opret, regs, tstmode, probed, removed, faults, suspended,
                    priv_wol_irq, priv_phydev, irq_registered, irq_wake,
                    irq_pending, unacked, dev_addr, wol, wol_prior >>

\* variant of resume_synchronize_irq: the line is disabled without waiting
\* for the handler (disable_irq_nosync)
resume_disable_irq_nosync ==
    /\ pc = "resume_synchronize_irq"
    /\ pc' = "resume_genphy_resume"
    /\ UNCHANGED << op, todo, ret, opret, log, regs, tstmode, probed,
                    removed, faults, suspended, priv_wol_irq, priv_phydev,
                    irq_registered, irq_depth, irq_wake, irq_pending,
                    unacked, dev_addr, wol, wol_prior >>

\* ... and wait for a handler that is running
resume_synchronize_irq ==
    /\ pc = "resume_synchronize_irq"
    /\ ~irq_pending
    /\ pc' = "resume_genphy_resume"
    /\ UNCHANGED << op, todo, ret, opret, log, regs, tstmode, probed, removed, faults,
                    suspended, priv_wol_irq, priv_phydev, irq_registered,
                    irq_depth, irq_wake, irq_pending, unacked, dev_addr, wol, wol_prior >>

\* return genphy_resume(phydev); the framework marks the device active when
\* resume returns 0
resume_genphy_resume ==
    /\ pc = "resume_genphy_resume"
    /\ \E r \in GenphyResults :
        /\ log' = Append(log, CallEv("genphy_resume", "resume", irq_depth, r))
        /\ opret' = r
        /\ suspended' = IF r = 0 THEN FALSE ELSE suspended
    /\ pc' = "idle"
    /\ UNCHANGED << op, todo, ret, regs, tstmode, probed, removed, faults, priv_wol_irq,
                    priv_phydev, irq_registered, irq_depth, irq_wake,
                    irq_pending, unacked, dev_addr, wol, wol_prior >>

(* ---------------- specification ---------------- *)

Next ==
    \/ rockchip_fephy_probe
    \/ probe_request_irq
    \/ probe_disable_irq
    \/ probe_synchronize_irq
    \/ probe_enable_irq_wake
    \/ probe_set_phydev
    \/ rockchip_fephy_remove
    \/ config_init_call
    \/ config_init_return
    \/ rockchip_fephy_suspend
    \/ suspend_enable_irq
    \/ suspend_genphy_suspend
    \/ rockchip_fephy_resume
    \/ resume_disable_irq
    \/ resume_synchronize_irq
    \/ resume_genphy_resume
    \/ phy_write_ok
    \/ phy_write_fail
    \/ irq_edge
    \/ rockchip_fephy_wol_irq_thread

Spec == Init /\ [][Next]_vars

\* a step of the operation the framework thread is in
MainStep ==
    \/ probe_request_irq
    \/ probe_disable_irq
    \/ probe_synchronize_irq
    \/ probe_enable_irq_wake
    \/ probe_set_phydev
    \/ config_init_return
    \/ suspend_enable_irq
    \/ suspend_genphy_suspend
    \/ resume_disable_irq
    \/ resume_synchronize_irq
    \/ resume_genphy_resume
    \/ phy_write_ok
    \/ phy_write_fail

\* the handler thread, once woken, is scheduled, and an operation that has
\* been called runs to its end
FairSpec ==
    /\ Spec
    /\ WF_vars(rockchip_fephy_wol_irq_thread)
    /\ WF_vars(MainStep)

TypeOK ==
    /\ pc \in {"idle", "probe_request_irq", "probe_disable_irq",
               "probe_synchronize_irq", "probe_enable_irq_wake",
               "probe_set_phydev", "config_init", "suspend_wol_enable",
               "suspend_genphy_suspend", "resume_wol_disable",
               "resume_synchronize_irq", "resume_genphy_resume"}
    /\ tstmode \in {"normal", "test"}
    /\ \A a \in FlatRegs : regs[a] \in 0..65535
    /\ irq_depth \in 0..MaxDepth
    /\ wol \in {"never", "enabled", "disabled", "partial"}

(* ---------------- properties ---------------- *)

\* what the framework thread did in the operation, in order
MainLog == SelectSeq(log, LAMBDA e : e.by = "main")

\* the phy_writes of the operation, in order
Writes == SelectSeq(log, LAMBDA e : e.ev = "write")

\* register and value of each access of s
AV(s) == [i \in 1..Len(s) |-> << s[i].addr, s[i].val >>]

\* the instance has a bound wake line
BoundWakeLine == priv_wol_irq > 0 /\ irq_registered

\* C1: with a bound wake line, the line is disabled at the interrupt
\* controller in every state in which the device is not Suspended.
C1_WakeLineDisabledUnlessSuspended ==
    (BoundWakeLine /\ ~suspended) => irq_depth > 0

\* C2: in a suspend with a bound wake line, the framework thread performs
\* the register writes of WOL enable (at least one, all nine when none
\* fails), then enables the wake line once WOL enable has returned, then
\* calls generic suspend, and does nothing else; a finished suspend has done
\* all three.
C2_SuspendOrder ==
    (op = "suspend" /\ priv_wol_irq > 0) =>
        LET M == MainLog
            nW == Len(Writes)
        IN  /\ Len(M) <= nW + 2
            /\ \A i \in 1..Len(M) :
                /\ (i <= nW) => (M[i].ev = "write" /\ M[i].site = "wol_enable")
                /\ (i = nW + 1) =>
                      /\ M[i].ev = "enable_irq"
                      /\ nW >= 1
                      /\ todo = <<>>
                      /\ (ret = 0) => (nW = 9)
                /\ (i = nW + 2) => (M[i].ev = "genphy_suspend")
            /\ (pc = "idle") => (Len(M) = nW + 2)

\* a suspend with a bound wake line and no failure has finished
C2_Witness ==
    /\ op = "suspend"
    /\ priv_wol_irq > 0
    /\ pc = "idle"
    /\ ret = 0
    /\ opret = 0
    /\ Len(MainLog) = 11
    /\ MainLog[10].ev = "enable_irq"
    /\ MainLog[11].ev = "genphy_suspend"

\* C3: in a resume with a bound wake line, the framework thread performs
\* the register writes of WOL disable (at least one, all three when none
\* fails), then disables the wake line once WOL disable has returned, then
\* calls generic resume, and does nothing else; a finished resume has done
\* all three.
C3_ResumeOrder ==
    (op = "resume" /\ priv_wol_irq > 0) =>
        LET M == MainLog
            nW == Len(Writes)
        IN  /\ Len(M) <= nW + 2
            /\ \A i \in 1..Len(M) :
                /\ (i <= nW) => (M[i].ev = "write" /\ M[i].site = "wol_disable")
                /\ (i = nW + 1) =>
                      /\ M[i].ev = "disable_irq"
                      /\ nW >= 1
                      /\ todo = <<>>
                      /\ (ret = 0) => (nW = 3)
                /\ (i = nW + 2) => (M[i].ev = "genphy_resume")
            /\ (pc = "idle") => (Len(M) = nW + 2)

\* a resume with a bound wake line and no failure has finished
C3_Witness ==
    /\ op = "resume"
    /\ priv_wol_irq > 0
    /\ pc = "idle"
    /\ ret = 0
    /\ opret = 0
    /\ Len(MainLog) = 5
    /\ MainLog[4].ev = "disable_irq"
    /\ MainLog[5].ev = "genphy_resume"

\* the writes the claim C4 expects for the identity I (bytes I[1]..I[6]):
\* 19456 + k = 0x4C00 + k is the write command for (WOL, k)
C4_Expected(I) ==
    << << SMI_ADDR_TSTWRITE, BitOr(Shl(I[5], 8), I[6]) >>,
       << SMI_ADDR_TSTCNTL, 19456 >>,
       << SMI_ADDR_TSTWRITE, BitOr(Shl(I[3], 8), I[4]) >>,
       << SMI_ADDR_TSTCNTL, 19457 >>,
       << SMI_ADDR_TSTWRITE, BitOr(Shl(I[1], 8), I[2]) >>,
       << SMI_ADDR_TSTCNTL, 19458 >>,
       << SMI_ADDR_TSTWRITE, 15 >>,
       << SMI_ADDR_TSTCNTL, 19459 >>,
       << MII_INT_MASK, 3584 >> >>

\* C4: when WOL enable has run without a failed write, its writes are, in
\* this order, the banked writes (WOL,0) = (I[4]<<8)|I[5], (WOL,1) =
\* (I[2]<<8)|I[3], (WOL,2) = (I[0]<<8)|I[1], (WOL,3) = 0xF and then
\* interrupt-mask = 0xE00, every value below 2^16; for 00:11:22:33:44:55 the
\* values are 0x4455, 0x2233, 0x0011, 0xF.  The match word the code packs
\* from two bytes is (hi<<8)|lo for all bytes hi, lo in 0..255 (evaluated
\* once, in the initial states).
C4_WolEnableWrites ==
    /\ (op = "none") =>
          \A hi, lo \in 0..255 :
              /\ U16(MatchWord(hi, lo)) = BitOr(Shl(hi, 8), lo)
              /\ MatchWord(hi, lo) \in 0..65535
    /\ (op = "suspend" /\ priv_wol_irq > 0 /\ todo = <<>> /\ ret = 0) =>
        /\ AV(Writes) = C4_Expected(dev_addr)
        /\ \A i \in 1..Len(Writes) :
            Writes[i].r = 0 /\ Writes[i].val \in 0..65535
        /\ (dev_addr = <<0, 17, 34, 51, 68, 85>>) =>
              /\ Writes[1].val = 17493
              /\ Writes[3].val = 8755
              /\ Writes[5].val = 17
              /\ Writes[7].val = 15

\* WOL enable has run to its end for an identity whose bytes all differ
C4_Witness ==
    /\ op = "suspend"
    /\ priv_wol_irq > 0
    /\ todo = <<>>
    /\ ret = 0
    /\ dev_addr = <<128, 1, 254, 127, 15, 240>>
    /\ Len(Writes) = 9
    /\ regs[MII_INT_MASK] = 3584

\* C5: when WOL disable has run without a failed write, its writes are the
\* banked write (WOL,3) = 0 and then interrupt-mask = 0, whatever the WOL
\* sequences had done before, and the registers it wrote hold the same
\* values after every such run.
C5_WolDisableWrites ==
    (op = "resume" /\ priv_wol_irq > 0 /\ todo = <<>> /\ ret = 0) =>
        /\ AV(Writes) = << << SMI_ADDR_TSTWRITE, 0 >>,
                          << SMI_ADDR_TSTCNTL, 19459 >>,
                          << MII_INT_MASK, 0 >> >>
        /\ \A i \in 1..Len(Writes) : Writes[i].r = 0
        /\ regs[SMI_ADDR_TSTWRITE] = 0
        /\ regs[SMI_ADDR_TSTCNTL] = 19459
        /\ regs[MII_INT_MASK] = 0
        /\ wol = "disabled"

\* WOL disable has run to its end a second time in a row
C5_Witness ==
    /\ op = "resume"
    /\ priv_wol_irq > 0
    /\ todo = <<>>
    /\ ret = 0
    /\ wol_prior = "disabled"
    /\ wol = "disabled"
    /\ Len(Writes) = 3

\* WOL disable has run to its end with WOL enabled before
C5_WitnessEnabled ==
    /\ op = "resume"
    /\ priv_wol_irq > 0
    /\ todo = <<>>
    /\ ret = 0
    /\ wol_prior = "enabled"
    /\ wol = "disabled"

\* WOL disable has run to its end with WOL never enabled before
C5_WitnessNever ==
    /\ op = "resume"
    /\ priv_wol_irq > 0
    /\ todo = <<>>
    /\ ret = 0
    /\ wol_prior = "never"
    /\ wol = "disabled"

\* an access to a register of the flat address space, or a call that makes
\* one (generic suspend and resume access the generic PHY registers)
DirectAccess(e) ==
    \/ e.ev \in {"write", "read"}
       /\ e.addr \in {MII_LED_CTRL, MII_INT_MASK, MII_INT_STATUS}
    \/ e.ev \in {"genphy_suspend", "genphy_resume"}

\* C6: the PHY is in normal mode whenever no operation is running, and every
\* direct register access is made in normal mode.
C6_NormalModeAroundDirectAccess ==
    /\ (pc = "idle") => (tstmode = "normal")
    /\ \A i \in 1..Len(log) : DirectAccess(log[i]) => (log[i].tm = "normal")

\* C7: every register write of a write_banked call is made in test mode.
C7_BankWriteOnlyInTestMode ==
    \A i \in 1..Len(log) :
        (log[i].fn = "bank_write") => (log[i].tm = "test")

\* C8: an operation in which a register access or a resource request
\* failed returns an error.
C8_ErrorsReturned ==
    (/\ pc = "idle"
     /\ \/ ret /= 0
        \/ \E i \in 1..Len(MainLog) : MainLog[i].r /= 0)
    => (opret /= 0)

\* the writes of enter_test_mode in the operation
TstmodeWrites == SelectSeq(Writes, LAMBDA e : e.fn = "init_tstmode")

\* C9: enter_test_mode writes 0x0, 0x400, 0x0, 0x400 to register 20, in
\* this order, with no other write between them; it goes on to the fourth
\* write as long as none has failed; a write that fails is its last, no
\* write at all follows it, and its error is what the sequence and then the
\* operation return.
C9_EnterTestMode ==
    LET M == Writes
        T == TstmodeWrites
        n == Len(T)
    IN  /\ n <= 4
        /\ \A i \in 1..n :
            /\ T[i].addr = 20
            /\ T[i].val = << 0, 1024, 0, 1024 >>[i]
            /\ (i < n) => (T[i].r = 0)
        /\ \A i, j \in 1..Len(M) :
            (i < j /\ M[i].fn = "init_tstmode" /\ M[j].fn = "init_tstmode")
            => \A k \in i..j : M[k].fn = "init_tstmode"
        /\ (n > 0 /\ T[n].r /= 0) =>
              /\ M[Len(M)] = T[n]
              /\ todo = <<>>
              /\ ret = T[n].r
              /\ (pc = "idle") => (opret = T[n].r)
        /\ (n > 0 /\ n < 4 /\ T[n].r = 0) =>
              /\ M[Len(M)] = T[n]
              /\ todo /= <<>>
              /\ Head(todo).fn = "init_tstmode"

\* the third write of enter_test_mode has failed and init has returned
C9_Witness ==
    /\ op = "config_init"
    /\ pc = "idle"
    /\ Len(TstmodeWrites) = 3
    /\ TstmodeWrites[3].r = -ETIMEDOUT
    /\ opret = -ETIMEDOUT

\* enter_test_mode has run to its end
C9_WitnessSuccess ==
    /\ op = "config_init"
    /\ Len(TstmodeWrites) = 4
    /\ TstmodeWrites[4].r = 0

\* C10: a write_banked(bank, offset, value) call writes value to register
\* 23 and then, if that write succeeded, 0x4400 + (bank << 11) + offset to
\* register 20, and nothing else; if the write of the value fails it is the
\* last write and its error is returned.  17408 = 0x4400 is bit 14 | bit 10.
C10_WriteBanked ==
    LET M == Writes
    IN  \A i \in 1..Len(M) :
            (M[i].fn = "bank_write") =>
                LET a == M[i].args
                    cw == 17408 + a[1] * 2048 + a[2]
                IN  /\ M[i].addr \in {SMI_ADDR_TSTWRITE, SMI_ADDR_TSTCNTL}
                    /\ (M[i].site = "config_init") =>
                          (a = << 0, 24, 12 >> /\ cw = 17432)
                    /\ (M[i].addr = SMI_ADDR_TSTWRITE) =>
                          /\ M[i].val = a[3]
                          /\ (M[i].r = 0 /\ i < Len(M)) =>
                                /\ M[i + 1].fn = "bank_write"
                                /\ M[i + 1].args = a
                                /\ M[i + 1].addr = SMI_ADDR_TSTCNTL
                          /\ (M[i].r = 0 /\ i = Len(M)) =>
                                /\ todo /= <<>>
                                /\ Head(todo).fn = "bank_write"
                                /\ Head(todo).args = a
                                /\ Head(todo).addr = SMI_ADDR_TSTCNTL
                                /\ Head(todo).val = cw
                          /\ (M[i].r /= 0) =>
                                /\ i = Len(M)
                                /\ todo = <<>>
                                /\ ret = M[i].r
                    /\ (M[i].addr = SMI_ADDR_TSTCNTL) =>
                          /\ M[i].val = cw
                          /\ i > 1
                          /\ M[i - 1].fn = "bank_write"
                          /\ M[i - 1].args = a
                          /\ M[i - 1].addr = SMI_ADDR_TSTWRITE
                          /\ M[i - 1].r = 0

\* the banked write of init has made both its writes
C10_Witness ==
    /\ op = "config_init"
    /\ pc = "idle"
    /\ opret = 0
    /\ Len(Writes) = 8
    /\ << Writes[6].addr, Writes[6].val >> = << 23, 12 >>
    /\ << Writes[7].addr, Writes[7].val >> = << 20, 17432 >>

\* the write of the value of a banked write has failed
C10_WitnessFailure ==
    /\ op = "suspend"
    /\ Len(Writes) = 3
    /\ Writes[3].fn = "bank_write"
    /\ Writes[3].addr = SMI_ADDR_TSTWRITE
    /\ Writes[3].r = -EIO

\* C11: an init in which no write fails performs exactly eight writes:
\* LED control = 0x7aa; test-mode control = 0x0, 0x400, 0x0, 0x400; write
\* data = 0xC; test-mode control = 0x4418, the write command for (DSP0,
\* 0x18); test-mode control = 0x0; it returns 0 and leaves the PHY in normal
\* mode.
C11_InitSequence ==
    (op = "config_init" /\ todo = <<>> /\ ret = 0) =>
        /\ AV(Writes) = << << 25, 1962 >>, << 20, 0 >>, << 20, 1024 >>,
                          << 20, 0 >>, << 20, 1024 >>, << 23, 12 >>,
                          << 20, 17432 >>, << 20, 0 >> >>
        /\ \A i \in 1..Len(Writes) : Writes[i].r = 0
        /\ tstmode = "normal"
        /\ (pc = "idle") => (opret = 0)

\* init has returned 0
C11_Witness ==
    /\ op = "config_init"
    /\ pc = "idle"
    /\ opret = 0
    /\ ret = 0
    /\ Len(Writes) = 8
    /\ regs[MII_LED_CTRL] = 1962

\* the writes of the running sequence when none fails
SuccessPath ==
    IF op = "config_init" THEN rockchip_fephy_config_init
    ELSE IF op = "suspend" /\ priv_wol_irq > 0
         THEN rockchip_fephy_wol_enable(dev_addr)
    ELSE IF op = "resume" /\ priv_wol_irq > 0
         THEN rockchip_fephy_wol_disable
    ELSE <<>>

\* C12: in init, WOL enable and WOL disable the writes issued are the first
\* n writes of the sequence without failure, each but the last successful;
\* as long as the last one succeeded the rest of the sequence is still to
\* come; when it failed it stays the last write (no later write, no retry,
\* no write undoing an earlier one), the sequence returns its error, and so
\* does init.
C12_FailStop ==
    LET S == SuccessPath
        M == Writes
        n == Len(M)
    IN  /\ n <= Len(S)
        /\ \A i \in 1..n :
            /\ M[i].fn = S[i].fn
            /\ M[i].addr = S[i].addr
            /\ M[i].val = S[i].val
            /\ (i < n) => (M[i].r = 0)
        /\ (n > 0 /\ M[n].r = 0) =>
              /\ todo = SubSeq(S, n + 1, Len(S))
              /\ ret = 0
        /\ (n > 0 /\ M[n].r /= 0) =>
              /\ todo = <<>>
              /\ ret = M[n].r
              /\ (op = "config_init" /\ pc = "idle") => (opret = M[n].r)

\* the fifth write of WOL enable has failed and suspend has finished
C12_Witness ==
    /\ op = "suspend"
    /\ pc = "idle"
    /\ Len(Writes) = 5
    /\ Writes[5].r = -EIO
    /\ ret = -EIO

\* the second write of WOL disable has failed
C12_WitnessDisable ==
    /\ op = "resume"
    /\ Len(Writes) = 2
    /\ Writes[2].r /= 0

\* the seventh write of init has failed
C12_WitnessInit ==
    /\ op = "config_init"
    /\ pc = "idle"
    /\ Len(Writes) = 7
    /\ Writes[7].r /= 0
    /\ opret = Writes[7].r

\* C13: when the lookup of "wol_irq" reports that the interrupt is not yet
\* available, probe returns exactly that value, has made no call to the
\* interrupt controller (no handler registered, no line disabled or marked
\* wake-capable), and the instance has no bound wake line and is not probed.
C13_DeferredProbe ==
    (op = "probe" /\ priv_wol_irq = -EPROBE_DEFER) =>
        /\ pc = "idle"
        /\ opret = -EPROBE_DEFER
        /\ log = <<>>
        /\ ~irq_registered
        /\ ~irq_wake
        /\ irq_depth = 0
        /\ ~BoundWakeLine
        /\ ~probed

\* probe has returned the deferred-probe value
C13_Witness ==
    /\ op = "probe"
    /\ pc = "idle"
    /\ priv_wol_irq = -EPROBE_DEFER
    /\ opret = -EPROBE_DEFER

\* C14: in a resume no read of the wake handler lies between two register
\* writes of the framework thread.
C14_NoHandlerReadBetweenResumeWrites ==
    (op = "resume") =>
        ~ \E i, j, k \in 1..Len(log) :
            /\ i < j
            /\ j < k
            /\ log[i].ev = "write"
            /\ log[j].by = "irq"
            /\ log[k].ev = "write"

\* C14 as amended: in a resume with a bound wake line the line is disabled,
\* and a running handler waited for, after the register writes of WOL
\* disable and before generic resume is called: once disable_irq has
\* returned the line is disabled and no handler is woken or running, every
\* write of the resume precedes the disable_irq call, and nothing the
\* handler did comes after the call of generic resume.
C14_LineDisabledBeforeGenericResume ==
    (/\ op = "resume"
     /\ BoundWakeLine
     /\ pc \in {"resume_genphy_resume", "idle"}) =>
        /\ irq_depth > 0
        /\ ~irq_pending
        /\ \A i, j \in 1..Len(log) :
              /\ (log[i].ev = "disable_irq" /\ log[j].ev = "write") => (j < i)
              /\ (log[i].ev = "genphy_resume" /\ log[j].by = "irq") => (j < i)

\* a resume has finished in which the handler read the status register
\* between two writes of WOL disable
C14_Witness ==
    /\ op = "resume"
    /\ BoundWakeLine
    /\ pc = "idle"
    /\ Len(log) = 6
    /\ log[1].ev = "write"
    /\ log[2].by = "irq"
    /\ log[2].ev = "read"
    /\ log[3].ev = "write"
    /\ log[6].ev = "genphy_resume"

\* C15: on an instance without a bound wake line (the lookup returned zero
\* or a negative value other than deferred probe) probe makes no call to
\* the interrupt controller and returns 0; no interrupt line is registered,
\* disabled, enabled or marked wake-capable and no WOL register is written;
\* a suspend or resume does nothing but call generic suspend or generic
\* resume, and returns what that call returned.
C15_NoWakeLine ==
    /\ (op = "probe" /\ priv_wol_irq \in {0, -EINVAL} /\ opret /= -ENOMEM) =>
          /\ pc \in {"probe_set_phydev", "idle"}
          /\ log = <<>>
          /\ (pc = "idle") => (opret = 0 /\ probed)
    /\ (probed /\ priv_wol_irq <= 0) =>
          /\ ~irq_registered
          /\ ~irq_wake
          /\ ~irq_pending
          /\ irq_depth = 0
          /\ wol = "never"
          /\ regs[MII_INT_MASK] = 0
          /\ (op \in {"suspend", "resume"}) =>
                /\ todo = <<>>
                /\ Len(log) <= 1
                /\ \A i \in 1..Len(log) :
                      log[i].ev = (IF op = "suspend" THEN "genphy_suspend"
                                   ELSE "genphy_resume")
                /\ (pc = "idle") => (Len(log) = 1 /\ opret = log[1].r)

\* a suspend without a wake line has returned the error of generic suspend
C15_Witness ==
    /\ probed
    /\ priv_wol_irq = -EINVAL
    /\ op = "suspend"
    /\ pc = "idle"
    /\ Len(log) = 1
    /\ opret = -ETIMEDOUT

\* a resume without a wake line has returned 0
C15_WitnessResume ==
    /\ probed
    /\ priv_wol_irq = 0
    /\ op = "resume"
    /\ pc = "idle"
    /\ Len(log) = 1
    /\ opret = 0

\* C16: every run of the wake handler adds exactly one read of register 29
\* to what has happened, marks the interrupt handled, and changes neither a
\* register nor the test-mode state nor the disable depth of the wake line
\* nor the Active/Suspended state.
C16_HandlerReadsStatusOnly ==
    [][(irq_pending /\ ~irq_pending') =>
          /\ Len(log') = Len(log) + 1
          /\ SubSeq(log', 1, Len(log)) = log
          /\ log'[Len(log')].ev = "read"
          /\ log'[Len(log')].by = "irq"
          /\ log'[Len(log')].addr = MII_INT_STATUS
          /\ regs' = regs
          /\ tstmode' = tstmode
          /\ irq_depth' = irq_depth
          /\ suspended' = suspended]_vars

\* C17: every edge delivered on the enabled wake line is eventually
\* followed by the handler's read of the interrupt-status register.
C17_EdgeEventuallyAcknowledged == unacked ~> ~unacked

\* C18: the wake handler never runs with priv->phydev unset: nothing the
\* handler has done is a dereference of the null pointer.
C18_HandlerSeesPhydev ==
    \A i \in 1..Len(log) :
        (log[i].by = "irq") => (log[i].ev /= "null_deref")

\* C19: with a bound wake line, between operations the disable depth of the
\* line is 0 when the device is Suspended and 1 when it is Active, and
\* enable_irq is never called with the depth already 0.
C19_BalancedEnableDisable ==
    /\ (probed /\ BoundWakeLine /\ pc = "idle") =>
          (irq_depth = IF suspended THEN 0 ELSE 1)
    /\ \A i \in 1..Len(log) :
          (log[i].ev = "enable_irq") => (log[i].val > 0)

\* bit n of x
BitAt(x, n) == (x \div Pow2(n)) % 2

\* the banks of the enum
Banks == {BANK_DSP0, BANK_WOL, BANK_BIST, BANK_AFE, BANK_DSP1}

\* w is a 16-bit word with bits 14 and 10 set, bit 15 clear, bank in bits
\* 11..13, reg in bits 0..4 and bits 5..9 clear
WriteCommandFields(w, bank, reg) ==
    /\ w \in 0..65535
    /\ BitAt(w, 14) = 1
    /\ BitAt(w, 10) = 1
    /\ BitAt(w, 15) = 0
    /\ (w \div 2048) % 8 = bank
    /\ w % 32 = reg
    /\ (w \div 32) % 32 = 0

\* C20: for every bank of the enum and every offset 0..31 the write command
\* is a 16-bit word with bits 14 and 10 set and bit 15 clear, the bank alone
\* in bits 11..13 and the offset alone in bits 0..4, and two different
\* (bank, offset) pairs give different words (evaluated once, in the
\* initial states); every write command the driver has written to register
\* 20 is such a word, for a bank of the enum and one of the offsets 0x0..0x3
\* and 0x18.
C20_WriteCommandWord ==
    /\ (op = "none") =>
          \A b \in Banks, r \in 0..31 :
              /\ WriteCommandFields(TSTCNTL_WRITE(b, r), b, r)
              /\ \A b2 \in Banks, r2 \in 0..31 :
                    (<< b, r >> /= << b2, r2 >>) =>
                        (TSTCNTL_WRITE(b, r) /= TSTCNTL_WRITE(b2, r2))
    /\ \A i \in 1..Len(Writes) :
          (Writes[i].fn = "bank_write" /\ Writes[i].addr = SMI_ADDR_TSTCNTL) =>
              /\ Writes[i].args[1] \in Banks
              /\ Writes[i].args[2] \in {0, 1, 2, 3, 24}
              /\ WriteCommandFields(Writes[i].val, Writes[i].args[1],
                                    Writes[i].args[2])

\* the write command for (WOL, 3) has been written in a resume
C20_Witness ==
    /\ op = "resume"
    /\ Len(Writes) >= 2
    /\ Writes[2].fn = "bank_write"
    /\ Writes[2].val = 19459
    /\ Writes[2].r = 0
    /\ regs[SMI_ADDR_TSTCNTL] = 19459

====
